---- MODULE Spec2Model ----
(***************************************************************************)
(* Model of bushnet-server (src/main.go): the discovery / transfer cycle   *)
(* of main(), the per-device recording client (getRecordingsList,          *)
(* getRecording, deleteRecording, getRecordings) and the LED trigger file  *)
(* written by setLedState.                                                 *)
(*                                                                         *)
(* The process is a single thread of control; pc is its position.  Every   *)
(* external call (mDNS scan, HTTP request, file create, body copy) is one  *)
(* step whose outcome is chosen by the environment.  log is the trace of   *)
(* those calls in the current cycle (a history variable, emptied when a    *)
(* new scan returns).                                                      *)
(***************************************************************************)
EXTENDS Naturals, Sequences, FiniteSets, TLC

\* ------------------------------------------------------------------ bounds

\* Longest listing a device returns.
MaxList == 2

\* Number of failing external calls (transport, status, JSON, file) explored
\* in one behaviour.
MaxFaults == 2

\* Number of setLedState calls in a behaviour that exercises setLedState alone.
MaxCalls == 4

\* ------------------------------------------------- environment: universes

\* Devices that may be advertised on the network: device{Name, Address, Port}.
Cam1 == [Name |-> "cam1", Address |-> "10.0.0.1", Port |-> 80]

Cam2 == [Name |-> "cam2", Address |-> "10.0.0.2", Port |-> 80]

\* A camera that answers to the name of Cam1 at another address.
Cam1b == [Name |-> "cam1", Address |-> "10.0.0.3", Port |-> 80]

\* Two cameras whose names differ by a suffix that an id can carry.
CamU == [Name |-> "cam", Address |-> "10.0.0.4", Port |-> 80]

CamU1 == [Name |-> "cam_1", Address |-> "10.0.0.5", Port |-> 80]

DeviceUniverse == {Cam1, Cam2}

\* Recording ids a device may hold.
RecordingIds == {"a", "b"}

\* Trigger names offered by /sys/class/leds/led0/trigger, in file order.
TriggerNames == <<"none", "timer", "default-on", "mmc0">>

Range(s) == {s[i] : i \in 1..Len(s)}

\* Sequences over S of length at most n.
SeqsUpTo(S, n) == UNION {[1..k -> S] : k \in 0..n}

\* Sequences over S without repetition.
DistinctSeqs(S) == {s \in SeqsUpTo(S, Cardinality(S)) :
                      \A i, j \in 1..Len(s) : i # j => s[i] # s[j]}

\* The characters of a host name, as zeroconf reports it in
\* ServiceEntry.HostName.
LocalSuffix == <<".", "l", "o", "c", "a", "l", ".">>

\* A zeroconf.ServiceEntry: the fields getDevices reads, and AddrIPv6, which
\* the resolver looks at before it hands an entry over.
ServiceEntry(host, v4, v6, port) ==
  [HostName |-> host \o LocalSuffix, AddrIPv4 |-> v4, AddrIPv6 |-> v6, Port |-> port]

EntryCam1 == ServiceEntry(<<"c", "a", "m", "1">>, <<"10.0.0.1">>, <<>>, 80)

EntryCam2 == ServiceEntry(<<"c", "a", "m", "2">>, <<"10.0.0.2">>, <<>>, 80)

EntryCam1b == ServiceEntry(<<"c", "a", "m", "1">>, <<"10.0.0.3">>, <<>>, 80)

EntryCamU == ServiceEntry(<<"c", "a", "m">>, <<"10.0.0.4">>, <<>>, 80)

EntryCamU1 == ServiceEntry(<<"c", "a", "m", "_", "1">>, <<"10.0.0.5">>, <<>>, 80)

\* A camera that is reachable over IPv6 only.
EntryV6Only == ServiceEntry(<<"c", "a", "m", "6">>, <<>>, <<"fe80::6">>, 80)

\* An advertisement for which no address has been resolved.
EntryNoAddr == ServiceEntry(<<"c", "a", "m", "0">>, <<>>, <<>>, 80)

NoEntry == ServiceEntry(<<>>, <<>>, <<>>, 0)

\* string(chars): the Go string made of the characters.
RECURSIVE StringOf(_)
StringOf(chars) ==
  IF chars = <<>> THEN "" ELSE Head(chars) \o StringOf(Tail(chars))

\* getDevices, lines 173-177: the device made from an entry that has an IPv4
\* address: the host name without its last 7 characters, the first IPv4
\* address, the port.
DeviceOf(entry) ==
  [Name    |-> StringOf(SubSeq(entry.HostName, 1, Len(entry.HostName) - 7)),
   Address |-> entry.AddrIPv4[1],
   Port    |-> entry.Port]

\* The devices a scan of the advertisements in n can come back with.
DevicesOf(n) == {DeviceOf(e) : e \in {x \in n : Len(x.AddrIPv4) > 0}}

\* ------------------------------------------------------------------ state

VARIABLES
  pc,          \* position of main: "start", "discover", "loop", "rec", "get",
               \* "create", "copy", "delete", "halted"
  reported,    \* a cycle has completed (main reached line 128 at least once)
  devices,     \* main's devices slice for the current cycle
  di,          \* index into devices of the range loop in main
  ids,         \* the ids slice of getRecordings for devices[di]
  ii,          \* index into ids of the range loop in getRecordings
  resp,        \* body of the pending GET response: "none", "rec" or "err"
  led,         \* the trigger selected in the LED trigger file
  ledPresent,  \* the trigger file can be read
  ledWritable, \* the trigger file can be written
  store,       \* store[d]: recording ids held by device d
  files,       \* files[name]: content of the file name in cptvFolder
  log,         \* external calls of the current cycle, in order
  lastFound,   \* len(devices) of the latest completed cycle
  faults,      \* failing external calls so far
  net,         \* the service entries advertised on the network
  cpc,         \* position of the collector goroutine of getDevices: "idle",
               \* "recv" (waiting on the channel), "got" (holding an entry)
  centry,      \* the entry the collector holds
  collected,   \* getDevices' devices slice, appended to by the collector
  received,    \* entries the collector took from the channel in this scan
  sent,        \* entries the resolver has handed over in this scan
  ctxDone,     \* the scan's 10 s context has expired
  haltCause,   \* why the process ended: "none", "init", "browse", "panic"
  returned,    \* what the latest getDevices call returned
  store0,      \* the recordings each device held when the server started
  calls        \* the setLedState calls made so far, each with its effect

\* The state of a scan in progress.
scanvars == <<net, cpc, centry, collected, received, sent, ctxDone>>

\* What the transfer of recordings leaves alone.
xvars == <<scanvars, haltCause, returned, store0, calls>>

vars == <<pc, reported, devices, di, ids, ii, resp, led, ledPresent, ledWritable,
          store, files, log, lastFound, faults, xvars>>

\* ------------------------------------------------------- pure functions

\* var ledStates: logical state -> trigger name; "" for an unknown key.
ledStates(s) ==
  CASE s = "blinking" -> "timer"
    [] s = "off"      -> "none"
    [] s = "on"       -> "default-on"
    [] OTHER          -> ""

\* What ioutil.ReadFile returns for the trigger file: every trigger name,
\* the selected one in brackets.
TriggerFileContent(cur) ==
  [i \in 1..Len(TriggerNames) |->
     IF TriggerNames[i] = cur THEN "[" \o TriggerNames[i] \o "]"
                              ELSE TriggerNames[i]]

\* strings.Contains(string(b), "[" + newState + "]")
ContainsSelected(b, newState) ==
  \E i \in 1..Len(b) : b[i] = "[" \o newState \o "]"

\* setLedState with the debounce test looking for newState instead of
\* "[" + newState + "]": the file names every trigger, so nothing is written.
ContainsName(b, newState) ==
  \E i \in 1..Len(b) : b[i] = newState \/ b[i] = "[" \o newState \o "]"

SetLedStateNoBrackets(s, cur, present, writable) ==
  LET newState == ledStates(s) IN
  IF newState = "" THEN cur
  ELSE IF ~present THEN cur
  ELSE IF ContainsName(TriggerFileContent(cur), newState) THEN cur
  ELSE IF writable THEN newState ELSE cur

\* setLedState writing the trigger file although it could not be read:
\* where the file is absent, WriteFile makes it.
SetLedStateCreatesFile(s, cur, present, writable) ==
  LET newState == ledStates(s) IN
  IF newState = "" THEN cur
  ELSE IF present /\ ContainsSelected(TriggerFileContent(cur), newState) THEN cur
  ELSE IF writable \/ ~present THEN newState ELSE cur

\* setLedState(s): the trigger selected after the call.
SetLedState(s, cur, present, writable) ==
  LET newState == ledStates(s) IN
  IF newState = "" THEN cur
  ELSE IF ~present THEN cur
  ELSE IF ContainsSelected(TriggerFileContent(cur), newState) THEN cur
  ELSE IF writable THEN newState ELSE cur

\* setLedState calling ioutil.WriteFile whenever the file could be read.
SetLedStateWritesAlways(s, cur, present) ==
  /\ ledStates(s) # ""
  /\ present

\* setLedState(s): whether the call reaches ioutil.WriteFile (line 155).
SetLedStateWrites(s, cur, present) ==
  /\ ledStates(s) # ""
  /\ present
  /\ ~ContainsSelected(TriggerFileContent(cur), ledStates(s))

\* The arguments setLedState is called with, and one that is no key of
\* ledStates.
LedRequests == {"blinking", "off", "on", "flash"}

\* strconv.Itoa for the ports in use.
Itoa(n) == CASE n = 80 -> "80" [] n = 8080 -> "8080" [] OTHER -> "0"

\* device.getAddr
getAddr(d) == "http://" \o d.Address \o ":" \o Itoa(d.Port)

\* path.Join(cptvFolder, d.Name+"_"+id), relative to cptvFolder.
FileName(d, id) == d.Name \o "_" \o id

FileNames == {FileName(d, id) : d \in DeviceUniverse, id \in RecordingIds}

\* Content of a file of cptvFolder: whose bytes it holds (dev, id), whether
\* they are the recording ("rec") or the body of an error response ("err"),
\* and whether all of them were written.
NoDevice == [Name |-> "", Address |-> "", Port |-> 0]

NoFile == [present |-> FALSE, dev |-> NoDevice, id |-> "", body |-> "none",
           complete |-> FALSE]

NewFile(d, id, body) == [present |-> TRUE, dev |-> d, id |-> id, body |-> body,
                         complete |-> FALSE]

\* A listing a device holding the set S may return: every id it holds, in
\* any order, possibly with an id repeated.
Listings(S) == {s \in SeqsUpTo(S, MaxList) : Range(s) = S}

\* One entry of log.
Event(op, dev, id, pos, res, list) ==
  [op |-> op, dev |-> dev, id |-> id, pos |-> pos, res |-> res, ids |-> list]

\* ------------------------------------------------------------ initial state

\* The recordings the cameras hold when the server starts: two on one camera
\* and none on the other, or one on each.
InitialStores ==
  { [d \in DeviceUniverse |-> IF d = Cam1 THEN {"a", "b"} ELSE {}],
    [d \in DeviceUniverse |-> {"a"}] }

\* The state when main() is entered: nothing downloaded yet, the LED showing
\* the trigger the board selects by default.
Init ==
  /\ pc = "start"
  /\ reported = FALSE
  /\ devices = <<>>
  /\ di = 0
  /\ ids = <<>>
  /\ ii = 0
  /\ resp = "none"
  /\ led = "mmc0"
  /\ ledPresent \in BOOLEAN
  /\ ledWritable \in {w \in BOOLEAN : w => ledPresent}
  /\ store \in InitialStores
  /\ files = [f \in FileNames |-> NoFile]
  /\ log = <<>>
  /\ lastFound = 0
  /\ faults = 0
  /\ net = {EntryCam1, EntryCam2}
  /\ cpc = "idle"
  /\ centry = NoEntry
  /\ collected = <<>>
  /\ received = <<>>
  /\ sent = {}
  /\ ctxDone = FALSE
  /\ haltCause = "none"
  /\ returned = <<>>
  /\ store0 = store
  /\ calls = <<>>

\* ----------------------------------------------------------------- main()

\* main without its setLedState("off").
MainStartNoLed ==
  /\ pc = "start"
  /\ pc' = "discover"
  /\ UNCHANGED xvars
  /\ UNCHANGED <<reported, devices, di, ids, ii, resp, led, ledPresent,
                 ledWritable, store, files, log, lastFound, faults>>

\* main, lines 117-119: setLedState("off") before the loop.
MainStart ==
  /\ pc = "start"
  /\ led' = SetLedState("off", led, ledPresent, ledWritable)
  /\ pc' = "discover"
  /\ UNCHANGED xvars
  /\ UNCHANGED <<reported, devices, di, ids, ii, resp, ledPresent, ledWritable,
                 store, files, log, lastFound, faults>>

\* main keeping the devices of the scan before when a scan finds none.
GetDevicesKeepsLast ==
  /\ pc = "discover"
  /\ \/ \E ds \in DistinctSeqs(DevicesOf(net)) :
          /\ devices' = IF ds = <<>> THEN devices ELSE ds
          /\ returned' = ds
          /\ di' = 1
          /\ log' = <<>>
          /\ pc' = "loop"
          /\ UNCHANGED haltCause
     \/ \E cause \in {"init", "browse"} :
          /\ pc' = "halted"
          /\ haltCause' = cause
          /\ UNCHANGED <<devices, returned, di, log>>
  /\ UNCHANGED <<scanvars, store0, calls>>
  /\ UNCHANGED <<reported, ids, ii, resp, led, ledPresent, ledWritable, store,
                 files, lastFound, faults>>

\* getDevices: the scan returns the devices it collected, or the process is
\* ended by log.Fatalln (resolver not initialised, browse failed).
GetDevices ==
  /\ pc = "discover"
  /\ \/ \E ds \in DistinctSeqs(DevicesOf(net)) :
          /\ devices' = ds
          /\ returned' = ds
          /\ di' = 1
          /\ log' = <<>>
          /\ pc' = "loop"
          /\ UNCHANGED haltCause
     \/ \E cause \in {"init", "browse"} :
          /\ pc' = "halted"
          /\ haltCause' = cause
          /\ UNCHANGED <<devices, returned, di, log>>
  /\ UNCHANGED <<scanvars, store0, calls>>
  /\ UNCHANGED <<reported, ids, ii, resp, led, ledPresent, ledWritable, store,
                 files, lastFound, faults>>

\* getRecordings returned nil: main's range loop takes the next device.
DeviceDone ==
  /\ di' = di + 1
  /\ pc' = "loop"
  /\ ids' = <<>>
  /\ ii' = 0
  /\ resp' = "none"

\* getRecordings going on with the next id after an error.
DeviceFailedSkipsRecording ==
  IF ii < Len(ids)
  THEN /\ ii' = ii + 1
       /\ pc' = "rec"
       /\ UNCHANGED <<di, ids, resp>>
  ELSE DeviceDone

\* main leaving its range loop after an error.
DeviceFailedStopsCycle ==
  /\ di' = Len(devices) + 1
  /\ pc' = "loop"
  /\ ids' = <<>>
  /\ ii' = 0
  /\ resp' = "none"

\* getRecordings returned an error: main logs it and its range loop takes
\* the next device.
DeviceFailed ==
  /\ di' = di + 1
  /\ pc' = "loop"
  /\ ids' = <<>>
  /\ ii' = 0
  /\ resp' = "none"

\* main setting the LED from the downloads of the cycle instead of from
\* len(devices).
ReportFromDownloads ==
  /\ pc = "loop"
  /\ di > Len(devices)
  /\ led' = SetLedState(IF \E i \in 1..Len(log) : log[i].op = "DELETE" /\ log[i].res = "ok"
                        THEN "on" ELSE "off",
                        led, ledPresent, ledWritable)
  /\ lastFound' = Len(devices)
  /\ reported' = TRUE
  /\ pc' = "discover"
  /\ UNCHANGED xvars
  /\ UNCHANGED <<devices, di, ids, ii, resp, ledPresent, ledWritable,
                 store, files, log, faults>>

\* main, lines 128-132: after the last device, the LED is set from
\* len(devices) and the loop starts over.
Report ==
  /\ pc = "loop"
  /\ di > Len(devices)
  /\ led' = SetLedState(IF Len(devices) > 0 THEN "on" ELSE "off",
                        led, ledPresent, ledWritable)
  /\ lastFound' = Len(devices)
  /\ reported' = TRUE
  /\ pc' = "discover"
  /\ UNCHANGED xvars
  /\ UNCHANGED <<devices, di, ids, ii, resp, ledPresent, ledWritable,
                 store, files, log, faults>>

\* -------------------------------------------------------- recording client

Reverse(s) == [i \in 1..Len(s) |-> s[Len(s) + 1 - i]]

\* getRecordingsList not looking at the status code: the body of a non-200
\* response is decoded and ranged over.
GetRecordingsListNoStatusCheck ==
  /\ pc = "loop"
  /\ di <= Len(devices)
  /\ \/ \E r \in {"transport", "json"} :
          /\ faults < MaxFaults
          /\ faults' = faults + 1
          /\ log' = Append(log, Event("LIST", di, "", 0, r, <<>>))
          /\ DeviceFailed
     \/ \E l \in Listings(store[devices[di]]), r \in {"ok", "status"} :
          /\ r = "status" => faults < MaxFaults
          /\ log' = Append(log, Event("LIST", di, "", 0, r, IF r = "ok" THEN l ELSE <<>>))
          /\ faults' = IF r = "ok" THEN faults ELSE faults + 1
          /\ IF l = <<>>
             THEN DeviceDone
             ELSE /\ ids' = l
                  /\ ii' = 1
                  /\ pc' = "rec"
                  /\ UNCHANGED <<di, resp>>
  /\ UNCHANGED xvars
  /\ UNCHANGED <<reported, devices, led, ledPresent, ledWritable, store, files,
                 lastFound>>

\* getRecordings ranging over the ids from the last to the first.
GetRecordingsBackwards ==
  /\ pc = "loop"
  /\ di <= Len(devices)
  /\ \/ \E r \in {"transport", "status", "json"} :
          /\ faults < MaxFaults
          /\ faults' = faults + 1
          /\ log' = Append(log, Event("LIST", di, "", 0, r, <<>>))
          /\ DeviceFailed
     \/ \E l \in Listings(store[devices[di]]) :
          /\ log' = Append(log, Event("LIST", di, "", 0, "ok", l))
          /\ faults' = faults
          /\ IF l = <<>>
             THEN DeviceDone
             ELSE /\ ids' = Reverse(l)
                  /\ ii' = 1
                  /\ pc' = "rec"
                  /\ UNCHANGED <<di, resp>>
  /\ UNCHANGED xvars
  /\ UNCHANGED <<reported, devices, led, ledPresent, ledWritable, store, files,
                 lastFound>>

\* getRecordings, lines 91-95, with getRecordingsList: one GET of
\* /api/recordings.  A transport error, a non-200 status or a body that is
\* not a JSON array of strings is an error; otherwise the decoded ids are
\* ranged over.
GetRecordingsList ==
  /\ pc = "loop"
  /\ di <= Len(devices)
  /\ \/ \E r \in {"transport", "status", "json"} :
          /\ faults < MaxFaults
          /\ faults' = faults + 1
          /\ log' = Append(log, Event("LIST", di, "", 0, r, <<>>))
          /\ DeviceFailed
     \/ \E l \in Listings(store[devices[di]]) :
          /\ log' = Append(log, Event("LIST", di, "", 0, "ok", l))
          /\ faults' = faults
          /\ IF l = <<>>
             THEN DeviceDone
             ELSE /\ ids' = l
                  /\ ii' = 1
                  /\ pc' = "rec"
                  /\ UNCHANGED <<di, resp>>
  /\ UNCHANGED xvars
  /\ UNCHANGED <<reported, devices, led, ledPresent, ledWritable, store, files,
                 lastFound>>

\* getRecording, line 53: setLedState("blinking").
StartRecording ==
  /\ pc = "rec"
  /\ led' = SetLedState("blinking", led, ledPresent, ledWritable)
  /\ pc' = "get"
  /\ UNCHANGED xvars
  /\ UNCHANGED <<reported, devices, di, ids, ii, resp, ledPresent, ledWritable,
                 store, files, log, lastFound, faults>>

\* getRecording, lines 54-58: GET /api/recording/{id}.  Only a transport
\* error returns; the status code of the response is not looked at.  A
\* device answers 200 with the bytes of a recording it holds; it answers
\* non-200 for one it does not hold, or when it fails.
HttpGet ==
  /\ pc = "get"
  /\ LET d == devices[di]
         id == ids[ii] IN
     \/ /\ faults < MaxFaults
        /\ faults' = faults + 1
        /\ log' = Append(log, Event("GET", di, id, ii, "transport", <<>>))
        /\ DeviceFailed
     \/ /\ id \in store[d]
        /\ faults' = faults
        /\ log' = Append(log, Event("GET", di, id, ii, "ok", <<>>))
        /\ resp' = "rec"
        /\ pc' = "create"
        /\ UNCHANGED <<di, ids, ii>>
     \/ /\ id \in store[d] => faults < MaxFaults
        /\ faults' = IF id \in store[d] THEN faults + 1 ELSE faults
        /\ log' = Append(log, Event("GET", di, id, ii, "status", <<>>))
        /\ resp' = "err"
        /\ pc' = "create"
        /\ UNCHANGED <<di, ids, ii>>
  /\ UNCHANGED xvars
  /\ UNCHANGED <<reported, devices, led, ledPresent, ledWritable, store, files,
                 lastFound>>

\* getRecording, lines 60-64: os.Create of {Name}_{id} creates the file or
\* truncates the one that is there.
CreateFile ==
  /\ pc = "create"
  /\ LET d == devices[di]
         id == ids[ii] IN
     \/ /\ faults < MaxFaults
        /\ faults' = faults + 1
        /\ log' = Append(log, Event("CREATE", di, id, ii, "io", <<>>))
        /\ DeviceFailed
        /\ UNCHANGED files
     \/ /\ faults' = faults
        /\ log' = Append(log, Event("CREATE", di, id, ii, "ok", <<>>))
        /\ files' = [files EXCEPT ![FileName(d, id)] = NewFile(d, id, resp)]
        /\ pc' = "copy"
        /\ UNCHANGED <<di, ids, ii, resp>>
  /\ UNCHANGED xvars
  /\ UNCHANGED <<reported, devices, led, ledPresent, ledWritable, store,
                 lastFound>>

\* getRecording going on to deleteRecording whatever io.Copy returned.
CopyIgnoresError ==
  /\ pc = "copy"
  /\ LET d == devices[di]
         id == ids[ii] IN
     \/ \E r \in {"transport", "io"} :
          /\ faults < MaxFaults
          /\ faults' = faults + 1
          /\ log' = Append(log, Event("COPY", di, id, ii, r, <<>>))
          /\ pc' = "delete"
          /\ resp' = "none"
          /\ UNCHANGED <<di, ids, ii, files>>
     \/ /\ faults' = faults
        /\ log' = Append(log, Event("COPY", di, id, ii, "ok", <<>>))
        /\ files' = [files EXCEPT ![FileName(d, id)].complete = TRUE]
        /\ pc' = "delete"
        /\ resp' = "none"
        /\ UNCHANGED <<di, ids, ii>>
  /\ UNCHANGED xvars
  /\ UNCHANGED <<reported, devices, led, ledPresent, ledWritable, store,
                 lastFound>>

\* getRecording, lines 66-69: io.Copy of the response body into the file.
\* It fails when the body cannot be read to its end (transport) or the file
\* cannot be written (io); what was written stays in the file.
Copy ==
  /\ pc = "copy"
  /\ LET d == devices[di]
         id == ids[ii] IN
     \/ \E r \in {"transport", "io"} :
          /\ faults < MaxFaults
          /\ faults' = faults + 1
          /\ log' = Append(log, Event("COPY", di, id, ii, r, <<>>))
          /\ DeviceFailed
          /\ UNCHANGED files
     \/ /\ faults' = faults
        /\ log' = Append(log, Event("COPY", di, id, ii, "ok", <<>>))
        /\ files' = [files EXCEPT ![FileName(d, id)].complete = TRUE]
        /\ pc' = "delete"
        /\ resp' = "none"
        /\ UNCHANGED <<di, ids, ii>>
  /\ UNCHANGED xvars
  /\ UNCHANGED <<reported, devices, led, ledPresent, ledWritable, store,
                 lastFound>>

\* getRecordings, lines 96-103: getRecording returned nil; the range loop
\* takes the next id, or getRecordings returns nil after the last one.
RecordingDone ==
  IF ii < Len(ids)
  THEN /\ ii' = ii + 1
       /\ pc' = "rec"
       /\ UNCHANGED <<di, ids, resp>>
  ELSE DeviceDone

\* getRecording, line 71, with deleteRecording: DELETE /api/recording/{id}.
\* A transport error (the device may or may not have acted on the request)
\* or a non-200 status is an error.  A device answers 200 when it removed a
\* recording it held.
DeleteRecording ==
  /\ pc = "delete"
  /\ LET d == devices[di]
         id == ids[ii] IN
     \/ \E applied \in BOOLEAN :
          /\ faults < MaxFaults
          /\ faults' = faults + 1
          /\ log' = Append(log, Event("DELETE", di, id, ii, "transport", <<>>))
          /\ store' = IF applied THEN [store EXCEPT ![d] = @ \ {id}] ELSE store
          /\ DeviceFailed
     \/ /\ id \in store[d] => faults < MaxFaults
        /\ faults' = IF id \in store[d] THEN faults + 1 ELSE faults
        /\ log' = Append(log, Event("DELETE", di, id, ii, "status", <<>>))
        /\ UNCHANGED store
        /\ DeviceFailed
     \/ /\ id \in store[d]
        /\ faults' = faults
        /\ log' = Append(log, Event("DELETE", di, id, ii, "ok", <<>>))
        /\ store' = [store EXCEPT ![d] = @ \ {id}]
        /\ RecordingDone
  /\ UNCHANGED xvars
  /\ UNCHANGED <<reported, devices, led, ledPresent, ledWritable, files,
                 lastFound>>

\* ---------------------------------------------------------- specification

Next ==
  \/ MainStart
  \/ GetDevices
  \/ GetRecordingsList
  \/ StartRecording
  \/ HttpGet
  \/ CreateFile
  \/ Copy
  \/ DeleteRecording
  \/ Report

Spec == Init /\ [][Next]_vars

\* ------------------------------------------- getDevices, step by step

\* getDevices, lines 162-180: zeroconf.NewResolver fails and log.Fatalln ends
\* the process, or the scan's own devices slice and entries channel are made
\* and the collector goroutine is started.  The collector of an earlier scan
\* shares nothing with this one; its last step is taken before this point.
NewResolver ==
  /\ pc = "discover"
  /\ cpc # "got"
  /\ \/ /\ pc' = "halted"
        /\ haltCause' = "init"
        /\ UNCHANGED scanvars
     \/ /\ pc' = "browse"
        /\ cpc' = "recv"
        /\ centry' = NoEntry
        /\ collected' = <<>>
        /\ received' = <<>>
        /\ sent' = {}
        /\ ctxDone' = FALSE
        /\ UNCHANGED <<net, haltCause>>
  /\ UNCHANGED <<returned, store0, calls>>
  /\ UNCHANGED <<reported, devices, di, ids, ii, resp, led, ledPresent,
                 ledWritable, store, files, log, lastFound, faults>>

\* getDevices, lines 182-187: the 10 s context is made and resolver.Browse
\* starts the scan, or fails and log.Fatalln ends the process.
Browse ==
  /\ pc = "browse"
  /\ \/ /\ pc' = "halted"
        /\ haltCause' = "browse"
     \/ /\ pc' = "scan"
        /\ UNCHANGED haltCause
  /\ UNCHANGED <<scanvars, returned, store0, calls>>
  /\ UNCHANGED <<reported, devices, di, ids, ii, resp, led, ledPresent,
                 ledWritable, store, files, log, lastFound, faults>>

\* The resolver hands an entry to the collector over the unbuffered entries
\* channel (line 172 receives it).  It hands over each advertisement once, and
\* only one for which it has an IPv4 or an IPv6 address, until the context
\* expires.
Deliver(e) ==
  /\ pc = "scan"
  /\ ~ctxDone
  /\ cpc = "recv"
  /\ e \in net \ sent
  /\ Len(e.AddrIPv4) > 0 \/ Len(e.AddrIPv6) > 0
  /\ cpc' = "got"
  /\ centry' = e
  /\ received' = Append(received, e)
  /\ sent' = sent \cup {e}
  /\ UNCHANGED <<net, collected, ctxDone, haltCause, returned, store0, calls>>
  /\ UNCHANGED <<pc, reported, devices, di, ids, ii, resp, led, ledPresent,
                 ledWritable, store, files, log, lastFound, faults>>

\* The collector goroutine, lines 173-178: it makes a device from the entry
\* it holds and appends it to the devices slice of its scan.  AddrIPv4[0] of
\* an entry without an IPv4 address is an index out of range: the goroutine
\* panics and the process ends.  Nothing orders this step with main's.
CollectorAppend ==
  /\ cpc = "got"
  /\ pc # "halted"
  /\ IF Len(centry.AddrIPv4) = 0
     THEN /\ pc' = "halted"
          /\ haltCause' = "panic"
          /\ cpc' = "idle"
          /\ UNCHANGED <<collected, centry>>
     ELSE /\ collected' = Append(collected, DeviceOf(centry))
          /\ cpc' = "recv"
          /\ centry' = NoEntry
          /\ UNCHANGED <<pc, haltCause>>
  /\ UNCHANGED <<net, received, sent, ctxDone, returned, store0, calls>>
  /\ UNCHANGED <<reported, devices, di, ids, ii, resp, led, ledPresent,
                 ledWritable, store, files, log, lastFound, faults>>

\* The context of line 182 expires.
Timeout ==
  /\ pc = "scan"
  /\ ~ctxDone
  /\ ctxDone' = TRUE
  /\ UNCHANGED <<net, cpc, centry, collected, received, sent, haltCause,
                 returned, store0, calls>>
  /\ UNCHANGED <<pc, reported, devices, di, ids, ii, resp, led, ledPresent,
                 ledWritable, store, files, log, lastFound, faults>>

\* getDevices, lines 189-191, and main, line 121: ctx.Done() is closed and
\* getDevices returns the devices slice as it is at that moment; main ranges
\* over it.
ReturnDevices ==
  /\ pc = "scan"
  /\ ctxDone
  /\ devices' = collected
  /\ returned' = collected
  /\ di' = 1
  /\ log' = <<>>
  /\ pc' = "loop"
  /\ UNCHANGED <<scanvars, haltCause, store0, calls>>
  /\ UNCHANGED <<reported, ids, ii, resp, led, ledPresent, ledWritable, store,
                 files, lastFound, faults>>

\* A server on a board without the LED, one camera holding a recording, and
\* beside it either a second camera or one that has an IPv6 address only.
InitD ==
  /\ pc = "start"
  /\ reported = FALSE
  /\ devices = <<>>
  /\ di = 0
  /\ ids = <<>>
  /\ ii = 0
  /\ resp = "none"
  /\ led = "mmc0"
  /\ ledPresent = FALSE
  /\ ledWritable = FALSE
  /\ store = [d \in DeviceUniverse |-> IF d = Cam1 THEN {"a"} ELSE {}]
  /\ files = [f \in FileNames |-> NoFile]
  /\ log = <<>>
  /\ lastFound = 0
  /\ faults = 0
  /\ net \in {{EntryCam1, EntryCam2}, {EntryCam1, EntryV6Only, EntryNoAddr}}
  /\ cpc = "idle"
  /\ centry = NoEntry
  /\ collected = <<>>
  /\ received = <<>>
  /\ sent = {}
  /\ ctxDone = FALSE
  /\ haltCause = "none"
  /\ returned = <<>>
  /\ store0 = store
  /\ calls = <<>>

NextD ==
  \/ MainStart
  \/ NewResolver
  \/ Browse
  \/ \E e \in net : Deliver(e)
  \/ CollectorAppend
  \/ Timeout
  \/ ReturnDevices
  \/ GetRecordingsList
  \/ StartRecording
  \/ HttpGet
  \/ CreateFile
  \/ Copy
  \/ DeleteRecording
  \/ Report

\* The server with the scan of getDevices taken step by step.
SpecD == InitD /\ [][NextD]_vars

\* ------------------------------------------------- cameras with like names

\* Cameras whose names and ids make the same file name: two that answer to
\* one name at two addresses, and two whose names differ by what an id
\* starts with.
NamesUniverse == {Cam1, Cam1b, CamU, CamU1}

\* Either pair on the network, each camera holding one recording, on a board
\* without the LED.
InitNames ==
  /\ pc = "start"
  /\ reported = FALSE
  /\ devices = <<>>
  /\ di = 0
  /\ ids = <<>>
  /\ ii = 0
  /\ resp = "none"
  /\ led = "mmc0"
  /\ ledPresent = FALSE
  /\ ledWritable = FALSE
  /\ \/ /\ net = {EntryCam1, EntryCam1b}
        /\ store = [d \in NamesUniverse |-> IF d \in {Cam1, Cam1b} THEN {"a"} ELSE {}]
     \/ /\ net = {EntryCamU, EntryCamU1}
        /\ store = [d \in NamesUniverse |->
                      IF d = CamU THEN {"1_a"} ELSE IF d = CamU1 THEN {"a"} ELSE {}]
  /\ files = [f \in {FileName(d, id) : d \in NamesUniverse, id \in {"a", "1_a"}} |-> NoFile]
  /\ log = <<>>
  /\ lastFound = 0
  /\ faults = 0
  /\ cpc = "idle"
  /\ centry = NoEntry
  /\ collected = <<>>
  /\ received = <<>>
  /\ sent = {}
  /\ ctxDone = FALSE
  /\ haltCause = "none"
  /\ returned = <<>>
  /\ store0 = store
  /\ calls = <<>>

\* The server among such cameras.
SpecNames == InitNames /\ [][Next]_vars

\* ------------------------------------------------- one camera, retried

\* One camera holding one recording, on a board without the LED.
InitHeal ==
  /\ pc = "start"
  /\ reported = FALSE
  /\ devices = <<>>
  /\ di = 0
  /\ ids = <<>>
  /\ ii = 0
  /\ resp = "none"
  /\ led = "mmc0"
  /\ ledPresent = FALSE
  /\ ledWritable = FALSE
  /\ store = [d \in DeviceUniverse |-> IF d = Cam1 THEN {"a"} ELSE {}]
  /\ files = [f \in FileNames |-> NoFile]
  /\ log = <<>>
  /\ lastFound = 0
  /\ faults = 0
  /\ net = {EntryCam1}
  /\ cpc = "idle"
  /\ centry = NoEntry
  /\ collected = <<>>
  /\ received = <<>>
  /\ sent = {}
  /\ ctxDone = FALSE
  /\ haltCause = "none"
  /\ returned = <<>>
  /\ store0 = store
  /\ calls = <<>>

\* main is one thread and every call it makes returns: while it has not
\* ended it takes its next step.
SpecHeal == InitHeal /\ [][Next]_vars /\ WF_vars(Next)

\* ------------------------------------------------------ setLedState alone

\* One call setLedState(s), recorded with what it found and what it did.
SetStateCall(s) ==
  /\ Len(calls) < MaxCalls
  /\ led' = SetLedState(s, led, ledPresent, ledWritable)
  /\ calls' = Append(calls, [req    |-> s,
                             before |-> led,
                             wrote  |-> SetLedStateWrites(s, led, ledPresent),
                             after  |-> led'])
  /\ UNCHANGED <<scanvars, haltCause, returned, store0>>
  /\ UNCHANGED <<pc, reported, devices, di, ids, ii, resp, ledPresent,
                 ledWritable, store, files, log, lastFound, faults>>

NextLed == \E s \in LedRequests : SetStateCall(s)

\* Any sequence of setLedState calls, from the state main() is entered in.
SpecLed == Init /\ [][NextLed]_vars

\* ------------------------------------------------------------- properties

\* Positions of main inside a getRecording call whose GET is issued or answered.
InFlight == pc \in {"get", "create", "copy", "delete"}

LogIdx == 1..Len(log)

IsReq(e) == e.op \in {"LIST", "GET", "DELETE"}

\* The HTTP requests of the cycle, in order.
Requests == SelectSeq(log, IsReq)

\* Two entries of log about the same listing entry of the same device.
SameEntry(e, f) == e.dev = f.dev /\ e.pos = f.pos

\* Entry i of log is a call of getRecording that made it return an error.
FailedAt(i) ==
  \/ log[i].op = "GET" /\ log[i].res = "transport"
  \/ log[i].op = "CREATE" /\ log[i].res # "ok"
  \/ log[i].op = "COPY" /\ log[i].res # "ok"
  \/ log[i].op = "DELETE" /\ log[i].res # "ok"

\* After the error at entry i of log, main is at the next device: the next
\* call is that device's listing, or none has been made yet.
MovedOnAfter(i) ==
  /\ \A j \in LogIdx : j > i => log[j].dev > log[i].dev
  /\ i < Len(log) => log[i + 1].op = "LIST" /\ log[i + 1].dev = log[i].dev + 1
  /\ i = Len(log) => pc \in {"loop", "discover", "halted"} /\ di = log[i].dev + 1
  /\ (i = Len(log) /\ pc = "loop" /\ di <= Len(devices)) => ENABLED GetRecordingsList

\* The trigger main selects at the end of a cycle that found n devices.
Expected(n) == IF n > 0 THEN "default-on" ELSE "none"

\* C1: within a cycle, a DELETE for a listing entry of a device is issued if
\* and only if the body of that entry's GET was copied to the local file
\* without error; the DELETE is the request that follows that GET; a DELETE
\* for an id is issued only if a copy of that id succeeded.
C1_DeleteIffStored ==
  /\ \A i \in LogIdx : log[i].op = "DELETE" =>
        /\ i > 1
        /\ log[i - 1].op = "COPY" /\ log[i - 1].res = "ok"
        /\ SameEntry(log[i - 1], log[i]) /\ log[i - 1].id = log[i].id
  /\ \A i \in LogIdx : (log[i].op = "COPY" /\ log[i].res = "ok") =>
        IF i = Len(log)
        THEN pc = "delete" /\ di = log[i].dev /\ ii = log[i].pos
        ELSE log[i + 1].op = "DELETE" /\ SameEntry(log[i], log[i + 1])
  /\ \A i \in LogIdx : FailedAt(i) /\ log[i].op # "DELETE" =>
        ~\E j \in LogIdx : log[j].op = "DELETE" /\ SameEntry(log[i], log[j])
  /\ \A j \in 1..Len(Requests) : Requests[j].op = "DELETE" =>
        /\ j > 1
        /\ Requests[j - 1].op = "GET"
        /\ SameEntry(Requests[j - 1], Requests[j])
        /\ Requests[j - 1].id = Requests[j].id

\* C1 witness: one entry of a listing was stored and deleted, and the next
\* one failed to be stored and was not deleted.
C1_Witness ==
  \E i, j \in LogIdx :
    /\ i < j
    /\ log[i].op = "DELETE" /\ log[i].res = "ok"
    /\ log[j].op = "COPY" /\ log[j].res # "ok"
    /\ log[i].dev = log[j].dev
    /\ pc = "discover"

\* C2 (as claimed): a non-200 answer to GET /api/recording/{id} makes the
\* fetch fail: nothing is created, copied or deleted for that entry, no later
\* entry of the device is tried, and no file holds the body of an error
\* response.
C2_Non200FetchFails ==
  /\ \A i \in LogIdx : (log[i].op = "GET" /\ log[i].res = "status") =>
        /\ ~\E j \in LogIdx : j > i /\ log[j].dev = log[i].dev
        /\ i = Len(log) => pc \in {"loop", "discover", "halted"}
  /\ \A f \in FileNames : files[f].body # "err"

\* C3: after a listing call that failed (transport, status or JSON), no
\* other call is made for that device in the cycle (no fetch, no file, no
\* delete), and main is at the next device.
C3_ListFailureSkipsDevice ==
  \A i \in LogIdx : (log[i].op = "LIST" /\ log[i].res # "ok") =>
    /\ \A j \in LogIdx : j # i => log[j].dev # log[i].dev
    /\ MovedOnAfter(i)

\* C3 witness: the listing of the first device failed, each way being
\* possible, and the second device was listed and a recording fetched.
C3_Witness ==
  /\ Len(log) >= 3
  /\ log[1].op = "LIST" /\ log[1].res = "json" /\ log[1].dev = 1
  /\ log[2].op = "LIST" /\ log[2].res = "ok" /\ log[2].dev = 2
  /\ log[3].op = "GET"

\* C4: after the GET (transport), the file creation, the copy or the DELETE
\* failed for the listing entry at position i of a device, nothing more is
\* done for that device in the cycle, in particular nothing for an entry at
\* a position greater than i, and main is at the next device.
C4_AbortOnFirstError ==
  \A i \in LogIdx : FailedAt(i) =>
    /\ \A j \in LogIdx : (log[j].dev = log[i].dev /\ IsReq(log[j]) /\ j # i) =>
          j < i /\ log[j].pos <= log[i].pos
    /\ MovedOnAfter(i)

\* C4 witness: the first of two listed recordings failed at its delete, and
\* the next device has been listed.
C4_Witness ==
  \E i \in LogIdx :
    /\ log[i].op = "DELETE" /\ log[i].res # "ok" /\ log[i].pos = 1
    /\ \E l \in LogIdx : log[l].op = "LIST" /\ log[l].dev = log[i].dev
                         /\ Len(log[l].ids) = 2
    /\ i < Len(log) /\ log[i + 1].op = "LIST"

\* C5 (as claimed): after a fetch that failed with a transport error, before
\* the response or while its body was received, no file was created for that
\* entry in the cycle, no DELETE was issued for it and nothing later of the
\* device was tried.
C5_TransportFailureLeavesNoFile ==
  \A i \in LogIdx :
    (log[i].op \in {"GET", "COPY"} /\ log[i].res = "transport") =>
      /\ ~\E j \in LogIdx : log[j].op = "CREATE" /\ log[j].res = "ok"
                            /\ SameEntry(log[i], log[j])
      /\ ~\E j \in LogIdx : log[j].op = "DELETE" /\ SameEntry(log[i], log[j])
      /\ ~\E j \in LogIdx : j > i /\ log[j].dev = log[i].dev

\* C6: in a cycle the devices are handled in the order of the scan's result,
\* one after another: each device main has passed was listed exactly once,
\* the calls of one device all precede those of the next, a device's error
\* leaves main at the next device, and after the last device the Reporting
\* step is what main does.
C6_DevicesInTurn ==
  /\ \A k \in 1..Len(devices) :
        Cardinality({i \in LogIdx : log[i].op = "LIST" /\ log[i].dev = k}) =
          IF k < di \/ (k = di /\ (InFlight \/ pc = "rec")) THEN 1 ELSE 0
  /\ \A i \in LogIdx : log[i].dev \in 1..Len(devices)
  /\ \A i, j \in LogIdx : i < j => log[i].dev <= log[j].dev
  /\ \A i \in LogIdx : (FailedAt(i) \/ (log[i].op = "LIST" /\ log[i].res # "ok")) =>
        di > log[i].dev
  /\ (pc = "loop" /\ di > Len(devices)) => ENABLED Report
  /\ (pc = "discover" /\ reported) => di = Len(devices) + 1

\* C6 witness: a cycle of two devices has been reported in which the first
\* device failed and the second was listed and had a recording taken.
C6_Witness ==
  /\ pc = "discover" /\ reported /\ Len(devices) = 2
  /\ \E i \in LogIdx : FailedAt(i) /\ log[i].dev = 1
  /\ \E i \in LogIdx : log[i].op = "DELETE" /\ log[i].res = "ok" /\ log[i].dev = 2

\* C7 (as claimed): no recording id of a device is fetched twice in a cycle.
C7_NoIdFetchedTwice ==
  \A i, j \in LogIdx :
    (i < j /\ log[i].op = "GET" /\ log[j].op = "GET" /\ log[i].dev = log[j].dev)
      => log[i].id # log[j].id

\* C7 (amended): a device is listed at most once in a cycle and before any
\* fetch for it; the fetches follow the listing entry by entry, in its order
\* from the first entry on, each entry fetched at most once (so an id is
\* fetched at most as often as the listing names it).
C7_FetchOrderFollowsListing ==
  /\ \A i, j \in LogIdx :
        (log[i].op = "LIST" /\ log[j].op = "LIST" /\ log[i].dev = log[j].dev) => i = j
  /\ \A j \in LogIdx : log[j].op = "GET" =>
        /\ \E i \in 1..(j - 1) :
              /\ log[i].op = "LIST" /\ log[i].res = "ok" /\ log[i].dev = log[j].dev
              /\ log[j].pos \in 1..Len(log[i].ids)
              /\ log[j].id = log[i].ids[log[j].pos]
        /\ log[j].pos > 1 =>
              \E k \in 1..(j - 1) : log[k].op = "GET" /\ log[k].dev = log[j].dev
                                    /\ log[k].pos = log[j].pos - 1
        /\ \A k \in LogIdx : (log[k].op = "GET" /\ SameEntry(log[k], log[j])) => k = j

\* C7 witness: a listing of two different ids has had both fetched, the
\* first entry first.
C7_Witness ==
  \E l, i, j \in LogIdx :
    /\ l < i /\ i < j
    /\ log[l].op = "LIST" /\ log[l].ids = <<"b", "a">>
    /\ log[i].op = "GET" /\ log[i].dev = log[l].dev /\ log[i].id = "b"
    /\ log[j].op = "GET" /\ log[j].dev = log[l].dev /\ log[j].id = "a"

\* C8: when a cycle has been reported and the LED file is readable and
\* writable, the selected trigger is none if the cycle's scan found no device
\* and default-on if it found at least one.
C8_ReportSetsIndicator ==
  (pc \in {"discover", "halted"} /\ reported /\ ledPresent /\ ledWritable) =>
    /\ lastFound = Len(devices)
    /\ led = IF Len(devices) = 0 THEN "none" ELSE "default-on"

\* C8 witness: a reported cycle that found a device, had a failed transfer
\* and no successful one, with the LED on.
C8_Witness ==
  /\ pc = "discover" /\ reported /\ ledPresent /\ ledWritable
  /\ Len(devices) > 0
  /\ led = "default-on"
  /\ \E i \in LogIdx : FailedAt(i)
  /\ ~\E i \in LogIdx : log[i].op = "DELETE" /\ log[i].res = "ok"

\* A getRecording call has been made in the current cycle.
TransferStarted ==
  \/ InFlight
  \/ pc \in {"loop", "rec"} /\ \E i \in LogIdx : log[i].op = "GET"

\* C9 (as claimed): after startup, with the LED file readable and writable,
\* whenever no transfer is in flight the trigger is not timer, and it is the
\* one of the latest completed cycle once a cycle has completed.
C9_NotBusyWhenNoTransfer ==
  (pc # "start" /\ ledPresent /\ ledWritable /\ ~InFlight) =>
    /\ led # "timer"
    /\ reported => led = Expected(lastFound)

\* C9 (amended): after startup, with the LED file readable and writable:
\* until the first getRecording call of a cycle the trigger is the one of the
\* latest completed cycle (none before any cycle has completed); from that
\* call on it is timer, also between and after the transfers, until the
\* Reporting step of the cycle.
C9_IndicatorUntilReport ==
  (pc # "start" /\ ledPresent /\ ledWritable) =>
    led = IF TransferStarted THEN "timer" ELSE Expected(lastFound)

\* C9 witness: no transfer is in flight, the first device's transfer has
\* ended, the next device is about to be listed, and the LED still blinks.
C9_Witness ==
  /\ pc = "loop" /\ di = 2 /\ Len(devices) = 2
  /\ ledPresent /\ ledWritable
  /\ \E i \in LogIdx : log[i].op = "DELETE" /\ log[i].res = "ok"
  /\ led = "timer"

\* C10: with the LED file readable and writable, the trigger is timer from
\* the GET of a recording until getRecording returns.
C10_BusyWhileFetching ==
  (InFlight /\ ledPresent /\ ledWritable) => led = "timer"

\* C10 witness: a body is being copied in a cycle that follows one which
\* found no device and left the LED off.
C10_Witness ==
  /\ pc = "copy" /\ reported /\ lastFound = 0
  /\ ledPresent /\ ledWritable /\ led = "timer"
  /\ ~\E i \in LogIdx : log[i].op = "DELETE"

\* ---------------------------------------------------- properties: the LED

\* Call i of calls obeys the debounce contract: it wrote exactly when the
\* requested trigger was not the selected one, it left the requested trigger
\* selected, and it wrote nothing if the call before it asked for the same.
Debounced(i) ==
  LET c == calls[i] IN
  ledStates(c.req) # "" =>
    /\ c.wrote <=> (ledStates(c.req) # c.before)
    /\ c.after = ledStates(c.req)
    /\ (i > 1 /\ calls[i - 1].req = c.req) => ~c.wrote

SetStateStep == pc \in {"start", "rec"} \/ (pc = "loop" /\ di > Len(devices))

\* The argument of that call.
Requested ==
  CASE pc = "start" -> "off"
    [] pc = "rec"   -> "blinking"
    [] OTHER        -> IF Len(devices) > 0 THEN "on" ELSE "off"

\* What the step around a setLedState call does to everything but the LED:
\* main goes on to the scan or to the GET, and the Reporting step notes the
\* cycle; devices, queues, stores, files, the trace of calls and the fault
\* count stay as they are.
AfterSetState ==
  /\ pc' = IF pc = "rec" THEN "get" ELSE "discover"
  /\ reported' = (reported \/ pc = "loop")
  /\ lastFound' = IF pc = "loop" THEN Len(devices) ELSE lastFound
  /\ UNCHANGED <<devices, di, ids, ii, resp, ledPresent, ledWritable, store,
                 files, log, faults, xvars>>

\* C12: a step in which setLedState is called has the same effect on the
\* rest of the system whether the trigger file is there or not (no halt, no
\* error path, the same next position, no change to devices, requests made,
\* stores or files); with the file absent the call attempts no write and the
\* trigger stays what it was; no other step touches the trigger.
C12_AbsentIndicatorNoOp ==
  [][ /\ SetStateStep => AfterSetState
      /\ (SetStateStep /\ ~ledPresent) =>
            ~SetLedStateWrites(Requested, led, ledPresent) /\ led' = led
      /\ ~SetStateStep => led' = led ]_vars

\* C12 witness: with the trigger file absent a cycle has been completed in
\* which a recording was taken and deleted (setLedState was called with off,
\* blinking and on) and the trigger is the one the board started with.
C12_Witness ==
  /\ ~ledPresent /\ reported /\ pc = "discover" /\ lastFound > 0
  /\ \E i \in LogIdx : log[i].op = "DELETE" /\ log[i].res = "ok"
  /\ led = "mmc0"

\* ------------------------------------------------ properties: discovery

\* A scan has returned and main is working on its result.
ScanReturned == pc \in {"loop", "rec", "get", "create", "copy", "delete"}

\* C13 (as claimed): once getDevices has returned, the list it returned has
\* one device for each entry the collector received from the channel before
\* the timeout, in the order received; the collector holds no entry it has
\* yet to append, and the scan's list is the returned one (nothing is
\* appended to it after the return).
C13_ReturnsCompletedBatch ==
  ScanReturned =>
    /\ Len(returned) = Len(received)
    /\ \A i \in 1..Len(returned) :
          Len(received[i].AddrIPv4) > 0 => returned[i] = DeviceOf(received[i])
    /\ cpc # "got"
    /\ collected = returned

\* C14 (as claimed): after the collector has received an entry that has no
\* IPv4 address, the process is still running, the entry stands for no
\* returned device, and a scan that has returned gave back the devices of
\* the other entries received.
C14_EntryWithoutIPv4Skipped ==
  (\E i \in 1..Len(received) : Len(received[i].AddrIPv4) = 0) =>
    /\ pc # "halted"
    /\ \A d \in Range(returned) :
          \E i \in 1..Len(received) :
            Len(received[i].AddrIPv4) > 0 /\ d = DeviceOf(received[i])
    /\ (ScanReturned /\ cpc # "got") =>
          \A i \in 1..Len(received) :
            Len(received[i].AddrIPv4) > 0 =>
              \E k \in 1..Len(returned) : returned[k] = DeviceOf(received[i])

\* C15 (as claimed): the process ends only when the discovery backend could
\* not be initialised.
C15_OnlyInitFailureHalts ==
  /\ pc = "halted" => haltCause = "init"
  /\ haltCause \in {"none", "init"}

\* The phase of the orchestrator a state is in.
Phase ==
  CASE pc = "start"                              -> "Starting"
    [] pc \in {"discover", "browse", "scan"}     -> "Discovering"
    [] pc = "loop" /\ di > Len(devices)          -> "Reporting"
    [] pc = "halted"                             -> "Halted"
    [] OTHER                                     -> "ProcessingDevices"

\* C19 (as claimed), its safety part: the phases follow one another as
\* Discovering -> ProcessingDevices -> Reporting -> Discovering (a scan that
\* found nothing goes from Discovering to Reporting), a scan is started only
\* from the start or from Reporting, and the process ends in no phase, except
\* that discovery fails to initialise.
C19_PhaseOrderNoTerminalState ==
  [][ /\ Phase' # Phase =>
            \/ Phase = "Starting" /\ Phase' = "Discovering"
            \/ Phase = "Discovering" /\ Phase' \in {"ProcessingDevices", "Reporting"}
            \/ Phase = "ProcessingDevices" /\ Phase' = "Reporting"
            \/ Phase = "Reporting" /\ Phase' = "Discovering"
            \/ Phase = "Discovering" /\ Phase' = "Halted" /\ haltCause' = "init"
      /\ (pc = "discover" /\ pc' = "browse") =>
            (reported => di = Len(devices) + 1)
      /\ (Phase = "Reporting" /\ Phase' # Phase) => reported' /\ lastFound' = Len(devices)
    ]_vars

\* ---------------------------------------------------- properties: storage

\* C16 (as claimed): a file of cptvFolder holds bytes of the (device,
\* recording id) pair its name is made of, and once it holds bytes of one
\* pair no step writes bytes of another pair, a device being (name, address,
\* port), into it.
C16_NoFileSharedByTwoRecordings ==
  [][ \A f \in DOMAIN files :
        /\ files'[f].present => f = FileName(files'[f].dev, files'[f].id)
        /\ (files[f].present /\ files'[f] # files[f]) =>
              files'[f].dev = files[f].dev /\ files'[f].id = files[f].id ]_vars

\* C17: every HTTP request of a cycle (listing, fetch, delete) goes to a
\* device that the getDevices call of that cycle returned, at that device's
\* address; a cycle whose getDevices call returned no device makes no
\* request.
C17_RequestsOnlyToDiscovered ==
  /\ \A i \in LogIdx :
        /\ log[i].dev \in 1..Len(devices)
        /\ \E k \in 1..Len(returned) :
              /\ devices[log[i].dev] = returned[k]
              /\ getAddr(devices[log[i].dev]) = getAddr(returned[k])
  /\ (pc \in {"rec", "get", "create", "copy", "delete"}) =>
        devices[di] \in Range(returned)
  /\ returned = <<>> => log = <<>> /\ ~(pc \in {"rec", "get", "create", "copy", "delete"})

\* C17 witness: a cycle that found two cameras has been reported; the scan
\* of the next cycle returned one of them only, and the requests of this
\* cycle, a listing and a fetch, went to that one.
C17_Witness ==
  /\ reported /\ lastFound = 2
  /\ returned = <<Cam2>>
  /\ pc = "create"
  /\ Len(log) = 2 /\ log[1].op = "LIST" /\ log[2].op = "GET"
  /\ devices[log[2].dev] = Cam2

\* Recording "a" of Cam1 is still on the camera at the end of a cycle in
\* which a call for Cam1 failed.
LeftAfterFailure ==
  /\ pc = "discover" /\ reported
  /\ "a" \in store[Cam1]
  /\ \E i \in LogIdx : log[i].res # "ok" /\ devices[log[i].dev] = Cam1

\* The cycle at hand found Cam1 and no call of it has failed.
Quiet ==
  /\ pc # "halted"
  /\ Cam1 \in Range(devices)
  /\ \A i \in LogIdx : log[i].res = "ok"

\* Recording "a" of Cam1 is in cptvFolder with all its bytes and no longer
\* on the camera.
Healed ==
  /\ "a" \notin store[Cam1]
  /\ files[FileName(Cam1, "a")] =
       [present |-> TRUE, dev |-> Cam1, id |-> "a", body |-> "rec", complete |-> TRUE]

\* C18 (as claimed): if the recording is left on the camera after a cycle in
\* which a call for the camera failed, and from some point on every cycle
\* finds the camera and all its calls succeed, then eventually the recording
\* is complete in local storage and deleted from the camera.
C18_SelfHealing == (<>LeftAfterFailure /\ <>[]Quiet) => <>Healed

\* The same when no call fails any more once the recording has been left
\* behind (the budget of failing calls is used up).
HealsWhenRetryIsClean ==
  <>[]Quiet => [](LeftAfterFailure /\ faults = MaxFaults => <>Healed)

\* C20 (as claimed): every recording a camera held when the server started
\* is still on that camera or is in cptvFolder, in the file named after the
\* camera and the id, with all of its own bytes.
C20_NoRecordingLost ==
  \A d \in DOMAIN store0 : \A r \in store0[d] :
    \/ r \in store[d]
    \/ files[FileName(d, r)] =
         [present |-> TRUE, dev |-> d, id |-> r, body |-> "rec", complete |-> TRUE]

====
